---- MODULE Spec2Model ----
(***************************************************************************)
(* Model of groq_demo.py: the Streamlit demo page of the RAG assistant.    *)
(* main() is re-executed from the top on every user interaction (a render  *)
(* pass).  One action per statement group of main(); the external          *)
(* collaborators (st.secrets, GroqLLM, the widgets' current values) are     *)
(* environment choices made at the call that reads them.                   *)
(***************************************************************************)
EXTENDS Integers, Sequences, FiniteSets, TLC

(* ------------------------------ bounds --------------------------------- *)

\* longest prompt the user types into the text area
MaxPromptLen == 2

(* ------------------------- values of the model ------------------------- *)

\* Optional values (Python None or a value) are sequences of length <= 1.
None == <<>>

Some(v) == <<v>>

\* characters a prompt is made of: two kinds of whitespace and a letter
PromptChars == {" ", "\t", "a"}

\* what str.strip() without arguments removes (ASCII whitespace)
Whitespace == {" ", "\t", "\n", "\r", "\f"}

RECURSIVE SeqsUpTo(_, _)
SeqsUpTo(S, n) ==
    IF n = 0 THEN {<<>>}
    ELSE LET shorter == SeqsUpTo(S, n - 1)
         IN  shorter \cup {Append(s, c) : s \in shorter, c \in S}

Prompts == SeqsUpTo(PromptChars, MaxPromptLen)

\* what st.secrets.get("GROQ_API_KEY") can return: None when the secret is
\* absent, otherwise the stored string (possibly empty)
SecretValues == {None, Some(""), Some("gsk_A"), Some("gsk_B")}

\* exceptions the collaborators raise; all of them derive from Exception
ExceptionClasses == {"ValueError", "ConnectionError", "ImportError"}

Exceptions ==
    { [cls |-> "ValueError", msg |-> "invalid api key"],
      [cls |-> "ConnectionError", msg |-> "network unreachable"] }

\* responses of GroqLLM.generate: content, model, usage and metadata mappings
\* (a mapping is a set of <<key, value>> pairs)
Responses ==
    { [content |-> "Hello", model |-> "m1",
       usage |-> {<<"tokens", 5>>}, metadata |-> {}],
      [content |-> "I am an assistant.", model |-> "m2",
       usage |-> {<<"tokens", 9>>}, metadata |-> {<<"latency_ms", 12>>}] }

\* slider positions: temperature in tenths (0.0 .. 1.0), max tokens
TemperatureValues == {3, 10}

MaxTokenValues == {500, 1000}

DefaultTemperature == 3

DefaultMaxTokens == 500

(* ------------------------------- state --------------------------------- *)

VARIABLES
    pc,          \* position of main() in the current render pass
    api_key,     \* local api_key (Optional string)
    llm,         \* local llm (Optional client handle)
    available,   \* what llm.is_available() returned (Optional boolean)
    user_prompt, \* local user_prompt
    pressed,     \* what st.button returned in this pass
    response,    \* local response (Optional)
    temperature, \* local temperature
    max_tokens,  \* local max_tokens
    exc,         \* the exception raised in the try block (Optional)
    page,        \* the elements rendered in this pass, in order
    calls,       \* the calls made to st.secrets and the client in this pass
    prev         \* the previous render pass as it ended (history)

vars == <<pc, api_key, llm, available, user_prompt, pressed, response,
          temperature, max_tokens, exc, page, calls, prev>>

locals == <<api_key, llm, available, user_prompt, pressed, response,
            temperature, max_tokens, exc>>

(* ------------------------- rendered elements --------------------------- *)

NoJson == [model |-> "", usage |-> {}, metadata |-> {}]

\* one st.* call: the widget, its text (the parts of the string) and, for
\* st.json, the structure shown
Element(widget, text) == [widget |-> widget, text |-> text, json |-> NoJson]

JsonElement(data) == [widget |-> "json", text |-> <<>>, json |-> data]

KeyMissingError == Element("error", <<"GROQ_API_KEY not found in Streamlit secrets">>)

SetupInstructions == Element("markdown", <<"Setup Instructions">>)

UnavailableError == Element("error", <<"Groq LLM is not available">>)

SuccessIndicator == Element("success", <<"Groq LLM Successfully Connected!">>)

PromptInput == Element("text_area", <<"Enter your prompt:">>)

GenerateButton == Element("button", <<"Generate Response">>)

PromptWarning == Element("warning", <<"Please enter a prompt first!">>)

TemperatureSlider == Element("slider", <<"Temperature">>)

MaxTokensSlider == Element("slider", <<"Max Tokens">>)

CommonIssues == Element("markdown", <<"Common Issues">>)

\* f"Error initializing Groq LLM: {str(e)}"
InitErrorMessage(e) == Element("error", <<"Error initializing Groq LLM: ", e.msg>>)

Shown(el) == \E i \in 1..Len(page) : page[i] = el

ShownWidget(w) == \E i \in 1..Len(page) : page[i].widget = w

(* ------------------------------ calls ---------------------------------- *)

Call(fn, key, prompt, kwargs) ==
    [fn |-> fn, api_key |-> key, prompt |-> prompt, kwargs |-> kwargs]

SecretsGetCall == Call("secrets.get", None, <<>>, {})

\* GroqLLM() without the key
ConstructCallWithoutKey(key) == Call("GroqLLM", None, <<>>, {})

\* GroqLLM(api_key=api_key)
ConstructCall(key) == Call("GroqLLM", key, <<>>, {})

IsAvailableCall == Call("is_available", None, <<>>, {})

\* llm.generate(user_prompt)
GenerateCall(prompt) == Call("generate", None, prompt, {})

CallsTo(fn) == {i \in 1..Len(calls) : calls[i].fn = fn}

(* --------------------------- pure helpers ------------------------------ *)

RECURSIVE lstrip(_)
lstrip(s) ==
    IF s = <<>> THEN s
    ELSE IF Head(s) \in Whitespace THEN lstrip(Tail(s)) ELSE s

RECURSIVE rstrip(_)
rstrip(s) ==
    IF s = <<>> THEN s
    ELSE IF s[Len(s)] \in Whitespace THEN rstrip(SubSeq(s, 1, Len(s) - 1)) ELSE s

RECURSIVE strip_spaces_only(_)
strip_spaces_only(s) ==
    IF s = <<>> THEN s
    ELSE IF Head(s) = " " THEN strip_spaces_only(Tail(s))
    ELSE IF s[Len(s)] = " " THEN strip_spaces_only(SubSeq(s, 1, Len(s) - 1))
    ELSE s

\* str.strip()
strip(s) == rstrip(lstrip(s))

KeyIsNone(key) == key = None

\* `not api_key`: None and the empty string are falsy
KeyMissing(key) == key = None \/ key[1] = ""

\* `if user_prompt.strip():`
PromptGiven(prompt) == strip(prompt) # <<>>

\* `not llm.is_available()` with the negation lost
NotAvailableInverted(b) == b

\* `not llm.is_available()`
NotAvailable(b) == ~b

\* `except ValueError`
CaughtValueErrorOnly(e) == e.cls = "ValueError"

\* `except Exception`
Caught(e) == e.cls \in ExceptionClasses

ResponseDetailsWithoutUsage(r) == [model |-> r.model, usage |-> {}, metadata |-> r.metadata]

\* the structure passed to st.json
ResponseDetails(r) == [model |-> r.model, usage |-> r.usage, metadata |-> r.metadata]

(* ------------------------------ actions -------------------------------- *)

NoPass == [ran |-> FALSE, pc |-> "start", api_key |-> None, available |-> None,
           user_prompt |-> <<>>, pressed |-> FALSE, response |-> None,
           temperature |-> DefaultTemperature, max_tokens |-> DefaultMaxTokens,
           exc |-> None, page |-> <<>>, calls |-> <<>>]

Init ==
    /\ pc = "start"
    /\ api_key = None
    /\ llm = None
    /\ available = None
    /\ user_prompt = <<>>
    /\ pressed = FALSE
    /\ response = None
    /\ temperature = DefaultTemperature
    /\ max_tokens = DefaultMaxTokens
    /\ exc = None
    /\ page = <<>>
    /\ calls = <<>>
    /\ prev = NoPass

\* an exception e raised inside the try block: control goes to the handler
Raise(e) ==
    /\ exc' = Some(e)
    /\ pc' = "except"

\* title, rule, subheader and info panel
RenderHeader ==
    /\ pc = "start"
    /\ page' = page \o <<Element("title", <<"Groq LLM Integration Demo">>),
                         Element("info", <<"Secure API Key Management">>)>>
    /\ pc' = "get_key"
    /\ UNCHANGED <<locals, calls, prev>>

\* api_key = st.secrets.get("GROQ_API_KEY")
GetApiKey ==
    /\ pc = "get_key"
    /\ calls' = Append(calls, SecretsGetCall)
    /\ \/ \E v \in SecretValues :
             /\ api_key' = v
             /\ pc' = "check_key"
             /\ UNCHANGED exc
       \/ \E e \in Exceptions :
             /\ Raise(e)
             /\ UNCHANGED api_key
    /\ UNCHANGED <<llm, available, user_prompt, pressed, response,
                   temperature, max_tokens, page, prev>>

\* if not api_key: error, instructions, return
CheckApiKey ==
    /\ pc = "check_key"
    /\ IF KeyMissing(api_key)
       THEN /\ page' = page \o <<KeyMissingError, SetupInstructions>>
            /\ pc' = "end"
       ELSE /\ page' = page
            /\ pc' = "construct"
    /\ UNCHANGED <<locals, calls, prev>>

\* llm = GroqLLM(api_key=api_key)
ConstructLLM ==
    /\ pc = "construct"
    /\ calls' = Append(calls, ConstructCall(api_key))
    /\ \/ /\ llm' = Some([api_key |-> api_key[1]])
          /\ pc' = "check_available"
          /\ UNCHANGED exc
       \/ \E e \in Exceptions :
             /\ Raise(e)
             /\ UNCHANGED llm
    /\ UNCHANGED <<api_key, available, user_prompt, pressed, response,
                   temperature, max_tokens, page, prev>>

\* if not llm.is_available(): error, return; else success indicator
CheckAvailable ==
    /\ pc = "check_available"
    /\ llm # None
    /\ calls' = Append(calls, IsAvailableCall)
    /\ \/ \E b \in BOOLEAN :
             /\ available' = Some(b)
             /\ IF NotAvailable(b)
                THEN /\ page' = Append(page, UnavailableError)
                     /\ pc' = "end"
                ELSE /\ page' = Append(page, SuccessIndicator)
                     /\ pc' = "prompt"
             /\ UNCHANGED exc
       \/ \E e \in Exceptions :
             /\ Raise(e)
             /\ UNCHANGED <<available, page>>
    /\ UNCHANGED <<api_key, llm, user_prompt, pressed, response,
                   temperature, max_tokens, prev>>

\* subheader, user_prompt = st.text_area(...), columns
RenderPromptInput ==
    /\ pc = "prompt"
    /\ \E p \in Prompts : user_prompt' = p
    /\ page' = page \o <<Element("subheader", <<"Try the LLM">>), PromptInput>>
    /\ pc' = "button"
    /\ UNCHANGED <<api_key, llm, available, pressed, response,
                   temperature, max_tokens, exc, calls, prev>>

\* the button's return value not tested: generation on every pass
RenderButtonUnconditional ==
    /\ pc = "button"
    /\ \E clicked \in BOOLEAN :
          /\ pressed' = clicked
          /\ IF PromptGiven(user_prompt)
             THEN /\ page' = Append(page, GenerateButton)
                  /\ pc' = "generate"
             ELSE /\ page' = page \o <<GenerateButton, PromptWarning>>
                  /\ pc' = "settings"
    /\ UNCHANGED <<api_key, llm, available, user_prompt, response,
                   temperature, max_tokens, exc, calls, prev>>

\* if st.button(...): if user_prompt.strip(): ... else: st.warning(...)
RenderButton ==
    /\ pc = "button"
    /\ \E clicked \in BOOLEAN :
          /\ pressed' = clicked
          /\ IF clicked
             THEN IF PromptGiven(user_prompt)
                  THEN /\ page' = Append(page, GenerateButton)
                       /\ pc' = "generate"
                  ELSE /\ page' = page \o <<GenerateButton, PromptWarning>>
                       /\ pc' = "settings"
             ELSE /\ page' = Append(page, GenerateButton)
                  /\ pc' = "settings"
    /\ UNCHANGED <<api_key, llm, available, user_prompt, response,
                   temperature, max_tokens, exc, calls, prev>>

\* the sliders read first and forwarded:
\* llm.generate(user_prompt, temperature=..., max_tokens=...)
GenerateForwardingSettings ==
    /\ pc = "generate"
    /\ llm # None
    /\ page' = Append(page, Element("spinner", <<"Generating response...">>))
    /\ \E t \in TemperatureValues, m \in MaxTokenValues :
          /\ temperature' = t
          /\ max_tokens' = m
          /\ calls' = Append(calls, Call("generate", None, user_prompt,
                                        {<<"temperature", t>>, <<"max_tokens", m>>}))
    /\ \/ \E r \in Responses :
             /\ response' = Some(r)
             /\ pc' = "show"
             /\ UNCHANGED exc
       \/ \E e \in Exceptions :
             /\ Raise(e)
             /\ UNCHANGED response
    /\ UNCHANGED <<api_key, llm, available, user_prompt, pressed, prev>>

\* with st.spinner(...): response = llm.generate(user_prompt)
Generate ==
    /\ pc = "generate"
    /\ llm # None
    /\ page' = Append(page, Element("spinner", <<"Generating response...">>))
    /\ calls' = Append(calls, GenerateCall(user_prompt))
    /\ \/ \E r \in Responses :
             /\ response' = Some(r)
             /\ pc' = "show"
             /\ UNCHANGED exc
       \/ \E e \in Exceptions :
             /\ Raise(e)
             /\ UNCHANGED response
    /\ UNCHANGED <<api_key, llm, available, user_prompt, pressed,
                   temperature, max_tokens, prev>>

\* subheader, st.write(response.content), expander with st.json({...})
ShowResponse ==
    /\ pc = "show"
    /\ page' = page \o <<Element("subheader", <<"Response">>),
                         Element("write", <<response[1].content>>),
                         Element("expander", <<"Response Details">>),
                         JsonElement(ResponseDetails(response[1]))>>
    /\ pc' = "settings"
    /\ UNCHANGED <<locals, calls, prev>>

\* subheader, temperature = st.slider(...), max_tokens = st.slider(...)
RenderSettings ==
    /\ pc = "settings"
    /\ \E t \in TemperatureValues : temperature' = t
    /\ \E m \in MaxTokenValues : max_tokens' = m
    /\ page' = page \o <<Element("subheader", <<"Settings">>),
                         TemperatureSlider, MaxTokensSlider>>
    /\ pc' = "code"
    /\ UNCHANGED <<api_key, llm, available, user_prompt, pressed, response,
                   exc, calls, prev>>

\* subheader and the expander with the implementation code samples
RenderImplementation ==
    /\ pc = "code"
    /\ page' = page \o <<Element("subheader", <<"Implementation Code">>),
                         Element("expander", <<"View the secure implementation">>)>>
    /\ pc' = "end"
    /\ UNCHANGED <<locals, calls, prev>>

\* a handler that calls generate once more before giving up
HandleExceptionWithRetry ==
    /\ pc = "except"
    /\ IF Cardinality(CallsTo("generate")) = 1
       THEN /\ page' = page
            /\ pc' = "generate"
       ELSE IF Caught(exc[1])
       THEN /\ page' = page \o <<InitErrorMessage(exc[1]), CommonIssues>>
            /\ pc' = "end"
       ELSE /\ page' = page
            /\ pc' = "propagated"
    /\ UNCHANGED <<locals, calls, prev>>

\* except Exception as e: st.error(...), st.markdown(common issues)
HandleException ==
    /\ pc = "except"
    /\ IF Caught(exc[1])
       THEN /\ page' = page \o <<InitErrorMessage(exc[1]), CommonIssues>>
            /\ pc' = "end"
       ELSE /\ page' = page
            /\ pc' = "propagated"
    /\ UNCHANGED <<locals, calls, prev>>

\* the pass as it ended
PassRecord ==
    [ran |-> TRUE, pc |-> pc, api_key |-> api_key, available |-> available,
     user_prompt |-> user_prompt, pressed |-> pressed, response |-> response,
     temperature |-> temperature, max_tokens |-> max_tokens,
     exc |-> exc, page |-> page, calls |-> calls]

\* a user interaction or reload: the script runs main() again from the top,
\* with fresh locals and an empty page
Rerun ==
    /\ pc = "end"
    /\ prev' = PassRecord
    /\ pc' = "start"
    /\ api_key' = None
    /\ llm' = None
    /\ available' = None
    /\ user_prompt' = <<>>
    /\ pressed' = FALSE
    /\ response' = None
    /\ temperature' = DefaultTemperature
    /\ max_tokens' = DefaultMaxTokens
    /\ exc' = None
    /\ page' = <<>>
    /\ calls' = <<>>

Next ==
    \/ RenderHeader
    \/ GetApiKey
    \/ CheckApiKey
    \/ ConstructLLM
    \/ CheckAvailable
    \/ RenderPromptInput
    \/ RenderButton
    \/ Generate
    \/ ShowResponse
    \/ RenderSettings
    \/ RenderImplementation
    \/ HandleException
    \/ Rerun

Spec == Init /\ [][Next]_vars

(* ------------------------- claim vocabulary ---------------------------- *)

AllWhitespace(p) == \A i \in 1..Len(p) : p[i] \in Whitespace

\* the pass ended with exactly these two elements rendered last
EndsWith(a, b) ==
    /\ Len(page) >= 2
    /\ page[Len(page) - 1] = a
    /\ page[Len(page)] = b

ClientCalls == {i \in 1..Len(calls) : calls[i].fn # "secrets.get"}

StepOrder == <<"secrets.get", "GroqLLM", "is_available", "generate">>

\* the step whose call raised the exception e at the end of the call log c
RaisingStep(c, e) == IF e = None THEN "none" ELSE c[Len(c)].fn

\* the previous pass ended after generate() raised
PrevGenerateFailed ==
    /\ prev.ran
    /\ prev.exc # None
    /\ \E i \in 1..Len(prev.calls) : prev.calls[i].fn = "generate"

(* ------------------------------ claims --------------------------------- *)

\* C1: in a pass with the key present, the client available and the trigger
\* pressed on an empty or whitespace-only prompt, the warning is displayed and
\* generate() is not invoked (nor about to be) anywhere in that pass.
C1_BlankPromptWarnsWithoutCall ==
    (/\ api_key # None
     /\ api_key # Some("")
     /\ available = Some(TRUE)
     /\ pressed
     /\ AllWhitespace(user_prompt))
    => /\ Shown(PromptWarning)
       /\ CallsTo("generate") = {}
       /\ response = None
       /\ pc \in {"settings", "code", "end"}

C1_Witness ==
    /\ pc = "end"
    /\ available = Some(TRUE)
    /\ pressed
    /\ user_prompt = <<" ", "\t">>
    /\ Shown(PromptWarning)

\* C2: in a pass where the secret read returned None or the empty string, the
\* key-missing error and the setup instructions are the last things rendered,
\* the pass stops there, no client is constructed and neither is_available()
\* nor generate() is called.
C2_MissingKeyStops ==
    (/\ pc \notin {"start", "get_key"}
     /\ exc = None
     /\ (api_key = None \/ api_key = Some("")))
    => /\ pc \in {"check_key", "end"}
       /\ llm = None
       /\ ClientCalls = {}
       /\ pc = "end" => EndsWith(KeyMissingError, SetupInstructions)
       /\ ~ShownWidget("success")

C2_Witness ==
    /\ pc = "end"
    /\ exc = None
    /\ api_key = Some("")
    /\ Shown(KeyMissingError)

\* C3 as stated: with a client whose is_available() never returns true, every
\* pass in which nothing raises ends in the unavailable-error state, whether
\* the key is present or absent.
C3_UnavailableRegardlessOfKey ==
    (/\ pc = "end"
     /\ exc = None
     /\ available # Some(TRUE))
    => /\ Shown(UnavailableError)
       /\ CallsTo("generate") = {}

\* C3 amended: with a client whose is_available() never returns true, every
\* pass in which the key is present and nothing raises ends in the
\* unavailable-error state: the error is the last element, there is no success
\* indicator, no prompt control, no slider, and generate() is not called.
C3_UnavailableWhenKeyPresent ==
    (/\ pc = "end"
     /\ exc = None
     /\ ~(api_key = None \/ api_key = Some(""))
     /\ available # Some(TRUE))
    => /\ available = Some(FALSE)
       /\ page[Len(page)] = UnavailableError
       /\ ~ShownWidget("success")
       /\ ~ShownWidget("text_area")
       /\ ~ShownWidget("button")
       /\ ~ShownWidget("slider")
       /\ CallsTo("generate") = {}

C3_Witness ==
    /\ pc = "end"
    /\ api_key = Some("gsk_A")
    /\ available = Some(FALSE)
    /\ Shown(UnavailableError)

\* C4: once generate() has returned r and the result is rendered, the page
\* holds exactly one text element, showing r.content, and exactly one details
\* structure, whose model, usage and metadata are r's; no error or warning is
\* displayed in that pass.
C4_ResponseShownAsIs ==
    (/\ pc \in {"settings", "code", "end"}
     /\ response # None)
    => /\ Cardinality({i \in 1..Len(page) : page[i].widget = "write"}) = 1
       /\ \A i \in 1..Len(page) :
             page[i].widget = "write" => page[i].text = <<response[1].content>>
       /\ Cardinality({i \in 1..Len(page) : page[i].widget = "json"}) = 1
       /\ \A i \in 1..Len(page) :
             page[i].widget = "json" =>
                /\ page[i].json.model = response[1].model
                /\ page[i].json.usage = response[1].usage
                /\ page[i].json.metadata = response[1].metadata
       /\ ~ShownWidget("error")
       /\ ~ShownWidget("warning")

C4_Witness ==
    /\ pc = "end"
    /\ response # None
    /\ response[1].model = "m2"
    /\ ShownWidget("json")

\* C5: a pass in which generate() raised ends with the generic error and the
\* common-issues list after a single generate() call (no retry); and in the
\* pass that follows such a failure, with the key present and the client
\* available, the prompt input and the trigger are rendered, no error is
\* displayed unless this pass raises itself, and a pressed trigger with a
\* non-empty prompt leads to exactly one new generate() call.
C5_FailureDoesNotCarryOver ==
    /\ (/\ pc = "end"
        /\ exc # None
        /\ CallsTo("generate") # {})
       => /\ Cardinality(CallsTo("generate")) = 1
          /\ EndsWith(InitErrorMessage(exc[1]), CommonIssues)
    /\ (/\ PrevGenerateFailed
        /\ available = Some(TRUE))
       => /\ pc # "prompt" => Shown(PromptInput)
          /\ pc \notin {"prompt", "button"} => Shown(GenerateButton)
          /\ exc = None => ~ShownWidget("error")
          /\ (/\ pressed
              /\ ~AllWhitespace(user_prompt)
              /\ pc # "generate")
             => Cardinality(CallsTo("generate")) = 1

C5_Witness ==
    /\ PrevGenerateFailed
    /\ pc = "end"
    /\ pressed
    /\ response # None
    /\ Cardinality(CallsTo("generate")) = 1

\* C6: while the trigger has not been pressed in a pass, generate() is neither
\* called nor about to be, and the client is touched at most by one
\* construction and one is_available() check; two successive passes without a
\* press that read the same key, got the same is_available() answer and the
\* same exception (if a setup step raised) display the same page.
C6_RerenderIdempotent ==
    /\ ~pressed
       => /\ CallsTo("generate") = {}
          /\ pc \notin {"generate", "show"}
          /\ response = None
          /\ \A i \in ClientCalls : calls[i].fn \in {"GroqLLM", "is_available"}
          /\ Cardinality(CallsTo("GroqLLM")) <= 1
          /\ Cardinality(CallsTo("is_available")) <= 1
    /\ (/\ pc = "end"
        /\ prev.ran
        /\ ~pressed
        /\ ~prev.pressed
        /\ api_key = prev.api_key
        /\ available = prev.available
        /\ exc = prev.exc)
       => page = prev.page

C6_Witness ==
    /\ pc = "end"
    /\ prev.ran
    /\ ~pressed
    /\ ~prev.pressed
    /\ api_key = prev.api_key
    /\ available = Some(TRUE)
    /\ prev.available = Some(TRUE)
    /\ user_prompt # prev.user_prompt
    /\ temperature # prev.temperature

\* C7: an exception raised by the secret read, the construction, the
\* availability check or the generation is always caught: the call that raised
\* is the last call of the pass, nothing of a later step is rendered, the pass
\* ends with the generic error message followed by the common-issues list, and
\* no exception leaves main().
C7_ExceptionsCaughtAtTopLevel ==
    /\ pc # "propagated"
    /\ exc # None
       => /\ pc \in {"except", "end"}
          /\ Len(calls) \in 1..4
          /\ \A i \in 1..Len(calls) : calls[i].fn = StepOrder[i]
          /\ Len(calls) <= 3 => (~ShownWidget("success") /\ ~ShownWidget("text_area"))
          /\ Len(calls) <= 2 => available = None
          /\ Len(calls) = 1 => llm = None
          /\ response = None
          /\ ~ShownWidget("write")
          /\ ~ShownWidget("json")
          /\ pc = "end" => EndsWith(InitErrorMessage(exc[1]), CommonIssues)

C7_Witness ==
    /\ pc = "end"
    /\ prev.ran
    /\ prev.exc # None
    /\ Len(prev.calls) = 1
    /\ exc # None
    /\ exc[1].cls = "ConnectionError"
    /\ Len(calls) = 3
    /\ Shown(CommonIssues)

\* C8 as stated: every pass in which setup succeeded ends with the success
\* indicator, the prompt input, the trigger and both sliders rendered,
\* whatever happened after the trigger was pressed.
C8_ControlsAlwaysRendered ==
    (/\ pc = "end"
     /\ available = Some(TRUE))
    => /\ Shown(SuccessIndicator)
       /\ Shown(PromptInput)
       /\ Shown(GenerateButton)
       /\ Shown(TemperatureSlider)
       /\ Shown(MaxTokensSlider)

\* C9: the calls of a pass are a prefix of secrets read, construction,
\* availability check, generation (so each happens at most once, in that
\* order); generate() is called only with a non-empty key read, the client
\* constructed with that very key, is_available() true, the trigger pressed
\* and a prompt that is not all whitespace; and a result is rendered only
\* after generate() has returned one.
C9_StepOrder ==
    /\ Len(calls) <= 4
    /\ \A i \in 1..Len(calls) : calls[i].fn = StepOrder[i]
    /\ Len(calls) >= 2
       => /\ api_key # None
          /\ api_key[1] # ""
          /\ calls[2].api_key = api_key
    /\ Len(calls) = 4
       => /\ llm = Some([api_key |-> api_key[1]])
          /\ available = Some(TRUE)
          /\ pressed
          /\ ~AllWhitespace(user_prompt)
          /\ calls[4].prompt = user_prompt
    /\ (ShownWidget("write") \/ ShownWidget("json"))
       => /\ Len(calls) = 4
          /\ response # None

C9_Witness ==
    /\ pc = "end"
    /\ Len(calls) = 4
    /\ api_key = Some("gsk_B")
    /\ user_prompt = <<" ", "a">>
    /\ ShownWidget("write")

\* C10: generate() is called with the prompt text and nothing else, and two
\* successive passes with the same key, availability, prompt, trigger state
\* and client outcome (the response, or the exception and the step that raised
\* it) make the same calls and display the same page whatever the two sliders
\* were set to.
C10_SettingsNotForwarded ==
    /\ \A i \in CallsTo("generate") :
          /\ calls[i].prompt = user_prompt
          /\ calls[i].kwargs = {}
          /\ calls[i].api_key = None
    /\ (/\ pc = "end"
        /\ prev.ran
        /\ api_key = prev.api_key
        /\ available = prev.available
        /\ user_prompt = prev.user_prompt
        /\ pressed = prev.pressed
        /\ response = prev.response
        /\ exc = prev.exc
        /\ RaisingStep(calls, exc) = RaisingStep(prev.calls, prev.exc))
       => /\ calls = prev.calls
          /\ page = prev.page

C10_Witness ==
    /\ pc = "end"
    /\ prev.ran
    /\ api_key = prev.api_key
    /\ user_prompt = prev.user_prompt
    /\ pressed
    /\ prev.pressed
    /\ response # None
    /\ response = prev.response
    /\ temperature # prev.temperature
    /\ max_tokens # prev.max_tokens

====
